---- MODULE Spec2Model ----
(***************************************************************************)
(* The appraisal server of nft-appraisal-oracle: the Express application   *)
(* (cors, bodyParser.json, express.static, then the appraisal router) and  *)
(* the POST handler of routes/appraisal.js.                                *)
(*                                                                         *)
(* A request is received (its body is in flight), and is later run through *)
(* the middleware chain and the handler in one turn of the event loop.     *)
(* Math.random() is a nondeterministic input: the values it returns during *)
(* a turn are the turn's "tape", consumed from the front.  A value of      *)
(* Math.random() is k / Unit for an integer k in 0 .. Unit-1.              *)
(***************************************************************************)
EXTENDS Integers, Sequences, FiniteSets, Bags, TLC

VARIABLES
    inflight,   \* bag of the bodies of the requests received and not yet handled
    received,   \* number of requests received so far
    last,       \* <<>> or <<e>>, e the exchange completed by the latest turn
    draws,      \* number of Math.random() calls made so far
    ok200,      \* number of 200 responses sent so far
    answers,    \* number of responses sent so far, whatever their status
    repeat      \* how the latest exchange compares with the one before it

vars == <<inflight, received, last, draws, ok200, answers, repeat>>

----------------------------------------------------------------------------
(* Bounds of the model *)

\* requests received in one behaviour
MaxRequests == 2

\* Math.random() returns k / 2^RandBits
RandBits == 10

Unit == 2 ^ RandBits

----------------------------------------------------------------------------
(* JavaScript values that JSON can carry in the nftContent field *)

Undefined == <<"undefined">>
Null == <<"null">>
Bool(b) == <<"boolean", b>>
Num(n) == <<"number", n>>
Str(s) == <<"string", s>>

\* ToBoolean of the language: what `!nftContent` negates
ToBoolean(v) ==
    CASE v[1] = "undefined" -> FALSE
      [] v[1] = "null"      -> FALSE
      [] v[1] = "boolean"   -> v[2]
      [] v[1] = "number"    -> v[2] # 0
      [] v[1] = "string"    -> v[2] # ""

Strings == {"", "0", " ", "false"}

JsonValues ==
    {Null, Bool(FALSE), Bool(TRUE), Num(0)} \cup {Str(s) : s \in Strings}

\* a parsed JSON object: a function from its field names to values
EmptyObject == [k \in {} |-> Undefined]
ObjectWith(v) == [k \in {"nftContent"} |-> v]

\* the body of a request as sent: malformed JSON text, or the text of an object
Malformed == [wellFormed |-> FALSE, obj |-> EmptyObject]
JsonText(o) == [wellFormed |-> TRUE, obj |-> o]

RawBodies ==
    {Malformed, JsonText(EmptyObject)} \cup {JsonText(ObjectWith(v)) : v \in JsonValues}

\* const { nftContent } = req.body
GetProp(obj, name) == IF name \in DOMAIN obj THEN obj[name] ELSE Undefined

----------------------------------------------------------------------------
(* Number.prototype.toFixed(1) of a non-negative rational num/den below    *)
(* 10^21: the integer n with n/10 closest to the number, the larger of two *)
(* equally close, written as the digits of n \div 10, a point, and the     *)
(* digit n % 10.                                                           *)

Digit(d) == <<"0", "1", "2", "3", "4", "5", "6", "7", "8", "9">>[d + 1]

RECURSIVE Digits(_)
Digits(n) == IF n < 10 THEN <<Digit(n)>> ELSE Append(Digits(n \div 10), Digit(n % 10))

Tenths(num, den) == (20 * num + den) \div (2 * den)

ToFixed1Trunc(num, den) ==
    LET n == (10 * num) \div den IN Digits(n \div 10) \o <<".", Digit(n % 10)>>

ToFixed1(num, den) ==
    LET n == Tenths(num, den) IN Digits(n \div 10) \o <<".", Digit(n % 10)>>

----------------------------------------------------------------------------
(* routes/appraisal.js *)

NumScores == 9

\* Math.random() * 3 + 7, as a numerator over Unit
MockScoreNum(k) == 3 * k + 7 * Unit

\* (Math.random() * 3 + 7).toFixed(1)
MockScore(k) == ToFixed1(MockScoreNum(k), Unit)

\* Math.floor(Math.random() * 4) + 7
DimensionScoreRound(k) == ((8 * k + Unit) \div (2 * Unit)) + 7

DimensionScore(k) == ((4 * k) \div Unit) + 7

ErrorBody == [error |-> "NFT content required"]

AppraisalBody(scores, overall) ==
    [scores |-> scores, overall |-> overall,
     reason |-> "Automated local appraisal complete"]

\* res.status(s).json(b); res.json(b) alone answers 200
ResJson(status, body) == [status |-> status, body |-> body]

Reject == [sent |-> <<ResJson(400, ErrorBody)>>, used |-> 0]

Appraise(tape) ==
    [sent |-> <<ResJson(200,
                  AppraisalBody([i \in 1..NumScores |-> DimensionScore(tape[1 + i])],
                                MockScore(tape[1])))>>,
     used |-> 1 + NumScores]

\* the handler without the `return` of line 9
HandlerFallThrough(body, tape) ==
    IF ~ToBoolean(GetProp(body, "nftContent"))
    THEN [sent |-> Reject.sent \o Appraise(tape).sent, used |-> Appraise(tape).used]
    ELSE Appraise(tape)

\* the handler drawing the overall score before it validates
HandlerEagerDraw(body, tape) ==
    IF ~ToBoolean(GetProp(body, "nftContent"))
    THEN [Reject EXCEPT !.used = 1]
    ELSE Appraise(tape)

\* the handler deriving the overall score from the drawn dimension scores
HandlerAggregate(body, tape) ==
    IF ~ToBoolean(GetProp(body, "nftContent"))
    THEN Reject
    ELSE LET a == Appraise(tape).sent[1].body
             sum == a.scores[1] + a.scores[2] + a.scores[3] + a.scores[4] + a.scores[5]
                    + a.scores[6] + a.scores[7] + a.scores[8] + a.scores[9]
         IN [sent |-> <<ResJson(200, AppraisalBody(a.scores, ToFixed1(sum, NumScores)))>>,
             used |-> 1 + NumScores]

\* the handler testing `nftContent == null` instead of `!nftContent`
HandlerNullCheck(body, tape) ==
    IF GetProp(body, "nftContent") \in {Undefined, Null}
    THEN Reject
    ELSE Appraise(tape)

\* the handler rejecting only a missing, null or empty-string nftContent
HandlerEmptyOnly(body, tape) ==
    IF GetProp(body, "nftContent") \in {Undefined, Null, Str("")}
    THEN Reject
    ELSE Appraise(tape)

\* the handler answering a repeated body from the previous exchange
HandlerCached(body, tape) ==
    IF ~ToBoolean(GetProp(body, "nftContent"))
    THEN Reject
    ELSE IF last # <<>> /\ last[1].raw = JsonText(body) /\ last[1].invoked
         THEN [sent |-> last[1].sent, used |-> 0]
         ELSE Appraise(tape)

\* the handler refusing to appraise once it has served an appraisal
HandlerThrottled(body, tape) ==
    IF ~ToBoolean(GetProp(body, "nftContent")) \/ ok200 > 0
    THEN Reject
    ELSE Appraise(tape)

\* router.post('/', (req, res) => { ... })
Handler(body, tape) ==
    IF ~ToBoolean(GetProp(body, "nftContent"))
    THEN Reject
    ELSE Appraise(tape)

----------------------------------------------------------------------------
(* The application: app.use(bodyParser.json()) before the route *)

\* bodyParser.json(): a malformed body is an error passed to next(err)
BodyParserLenient(raw) == [err |-> FALSE, body |-> raw.obj]

BodyParserJson(raw) == [err |-> ~raw.wellFormed, body |-> raw.obj]

\* the answer of Express's default error handler to the parser's error
ParseErrorResponse == [status |-> 400, body |-> [html |-> "SyntaxError"]]

\* one request through the middleware chain
App(raw, tape) ==
    LET parsed == BodyParserJson(raw) IN
    IF parsed.err
    THEN [invoked |-> FALSE, sent |-> <<ParseErrorResponse>>, used |-> 0]
    ELSE LET h == Handler(parsed.body, tape)
         IN [invoked |-> TRUE, sent |-> h.sent, used |-> h.used]

----------------------------------------------------------------------------
(* The values Math.random() returns during a turn *)

\* 0, 1/4, 1/2 and the largest value below 1
Rand == {0, Unit \div 4, Unit \div 2, Unit - 1}

\* nine draws: all equal, or all 0 but one, which is the largest value
ScoreDraws ==
    {[i \in 1..NumScores |-> b] : b \in Rand}
    \cup {[i \in 1..NumScores |-> IF i = p THEN Unit - 1 ELSE 0] : p \in 1..NumScores}

Tapes == {<<r0>> \o rs : r0 \in Rand, rs \in ScoreDraws}

\* every value of the resolution, the same for the ten draws of a turn
FineTapes == {[i \in 1..(1 + NumScores) |-> k] : k \in 0..(Unit - 1)}

----------------------------------------------------------------------------
(* State machine *)

Count200(sent) == Cardinality({i \in 1..Len(sent) : sent[i].status = 200})

Compare(old, new) ==
    IF old = <<>> \/ ~new.invoked THEN "none"
    ELSE IF old[1].raw # new.raw \/ Len(new.sent) # 1 \/ Len(old[1].sent) # 1 THEN "none"
    ELSE IF new.sent[1].status # 200 \/ old[1].sent[1].status # 200 THEN "none"
    ELSE IF new.sent = old[1].sent THEN "same"
    ELSE IF new.sent[1].body.scores # old[1].sent[1].body.scores
            /\ new.sent[1].body.overall # old[1].sent[1].body.overall THEN "differ"
    ELSE "partly"

Init ==
    /\ inflight = EmptyBag
    /\ received = 0
    /\ last = <<>>
    /\ draws = 0
    /\ ok200 = 0
    /\ answers = 0
    /\ repeat = "none"

Receive(raw) ==
    /\ received < MaxRequests
    /\ received' = received + 1
    /\ inflight' = inflight (+) SetToBag({raw})
    /\ UNCHANGED <<last, draws, ok200, answers, repeat>>

ReceiveFirst(raw) ==
    /\ received = 0
    /\ Receive(raw)

Handle(raw, tape) ==
    LET r == App(raw, tape)
        e == [raw |-> raw, invoked |-> r.invoked, sent |-> r.sent,
              rand |-> SubSeq(tape, 1, r.used)]
    IN /\ inflight' = inflight (-) SetToBag({raw})
       /\ last' = <<e>>
       /\ draws' = draws + r.used
       /\ ok200' = ok200 + Count200(r.sent)
       /\ answers' = answers + Len(r.sent)
       /\ repeat' = Compare(last, e)
       /\ UNCHANGED received

Next ==
    \/ \E raw \in RawBodies : Receive(raw)
    \/ \E raw \in BagToSet(inflight) : \E tape \in Tapes : Handle(raw, tape)

Spec == Init /\ [][Next]_vars

NextFine ==
    \/ \E raw \in RawBodies : ReceiveFirst(raw)
    \/ \E raw \in BagToSet(inflight) : \E tape \in FineTapes : Handle(raw, tape)

FineSpec == Init /\ [][NextFine]_vars

----------------------------------------------------------------------------
(* Vocabulary of the properties *)

Answered == last # <<>>
Exch == last[1]
Content(raw) == GetProp(raw.obj, "nftContent")
NonEmptyString(v) == v[1] = "string" /\ v[2] # ""

\* the latest turn ran the handler, which sent one 200 response
Appraised ==
    /\ Answered
    /\ Exch.invoked
    /\ Len(Exch.sent) = 1
    /\ Exch.sent[1].status = 200

\* the responses a turn handling `raw` can send from the current state
NextOutcomes(raw) == {App(raw, tape).sent : tape \in Tapes}

DigitChars == {Digit(d) : d \in 0..9}
DigitValue(c) == CHOOSE d \in 0..9 : Digit(d) = c

RECURSIVE ParseNat(_)
ParseNat(cs) ==
    IF cs = <<>> THEN 0
    ELSE 10 * ParseNat(SubSeq(cs, 1, Len(cs) - 1)) + DigitValue(cs[Len(cs)])

\* a decimal numeral with exactly one fractional digit
OneFractionalDigit(cs) ==
    /\ Len(cs) >= 3
    /\ cs[Len(cs) - 1] = "."
    /\ \A i \in (1..Len(cs)) \ {Len(cs) - 1} : cs[i] \in DigitChars

\* ten times the value of such a numeral
TenthsOf(cs) == 10 * ParseNat(SubSeq(cs, 1, Len(cs) - 2)) + DigitValue(cs[Len(cs)])

----------------------------------------------------------------------------
(* C1: a request whose nftContent is a non-empty string is answered 200    *)
(* with `scores` a sequence of exactly 9 integers, each in 7..10, and      *)
(* `reason` the fixed rationale.                                           *)
C1_ValidRequestAppraised ==
    (Answered /\ Exch.raw.wellFormed /\ NonEmptyString(Content(Exch.raw))) =>
        /\ Len(Exch.sent) = 1
        /\ Exch.sent[1].status = 200
        /\ DOMAIN Exch.sent[1].body = {"scores", "overall", "reason"}
        /\ DOMAIN Exch.sent[1].body.scores = 1..9
        /\ \A i \in 1..9 : Exch.sent[1].body.scores[i] \in 7..10
        /\ Exch.sent[1].body.reason = "Automated local appraisal complete"

\* a non-empty string was appraised with the largest draw: the score is 10
C1_Witness ==
    /\ Appraised
    /\ NonEmptyString(Content(Exch.raw))
    /\ Exch.rand[NumScores + 1] = Unit - 1
    /\ Exch.sent[1].body.scores[NumScores] = 10

(* C2 as stated: `overall` has one fractional digit and its value v        *)
(* satisfies 7.0 <= v < 10.0, so that "10.0" is never returned.            *)
C2_OverallBelowTen ==
    Appraised =>
        /\ OneFractionalDigit(Exch.sent[1].body.overall)
        /\ 70 <= TenthsOf(Exch.sent[1].body.overall)
        /\ TenthsOf(Exch.sent[1].body.overall) < 100

(* C2, amended: `overall` has one fractional digit, is r * 3 + 7 rounded   *)
(* to the nearest tenth (a tie upwards), and its value v satisfies         *)
(* 7.0 <= v <= 10.0; "10.0" is returned exactly when r * 3 + 7 >= 9.95.    *)
C2_OverallUpToTen ==
    Appraised =>
        LET o == Exch.sent[1].body.overall
            x == 3 * Exch.rand[1] + 7 * Unit    \* r * 3 + 7 over Unit
        IN /\ OneFractionalDigit(o)
           /\ 70 <= TenthsOf(o) /\ TenthsOf(o) <= 100
           /\ 2 * (10 * x - TenthsOf(o) * Unit) <= Unit
           /\ 2 * (TenthsOf(o) * Unit - 10 * x) < Unit \/ 2 * (TenthsOf(o) * Unit - 10 * x) = Unit
           /\ (TenthsOf(o) = 100) <=> (200 * x >= 1990 * Unit)

\* the overall score "10.0" was returned
C2_Witness ==
    /\ Appraised
    /\ Exch.sent[1].body.overall = <<"1", "0", ".", "0">>

(* C3: a request whose nftContent is missing, null or the empty string is  *)
(* answered 400 with exactly {"error": "NFT content required"}: no         *)
(* `scores`, `overall` or `reason`.                                        *)
C3_EmptyContentRejected ==
    (Answered /\ Exch.raw.wellFormed
              /\ Content(Exch.raw) \in {Undefined, Null, Str("")}) =>
        /\ Len(Exch.sent) = 1
        /\ Exch.sent[1].status = 400
        /\ DOMAIN Exch.sent[1].body = {"error"}
        /\ Exch.sent[1].body.error = "NFT content required"

\* the empty string was rejected
C3_Witness ==
    /\ Answered
    /\ Exch.raw = JsonText(ObjectWith(Str("")))
    /\ Exch.sent[1].status = 400

(* C4 as stated: the handler answers 400 only when nftContent is missing,  *)
(* null or the empty string; every other value the body parser delivers is *)
(* answered with a 200 appraisal.                                          *)
C4_OnlyEmptyRejected ==
    (Answered /\ Exch.invoked) =>
        /\ Len(Exch.sent) = 1
        /\ (Exch.sent[1].status = 400) <=>
               (Content(Exch.raw) \in {Undefined, Null, Str("")})
        /\ (Exch.sent[1].status = 200) <=>
               (Content(Exch.raw) \notin {Undefined, Null, Str("")})

(* C4, amended: the handler answers 400 exactly when nftContent is falsy:  *)
(* missing, null, the empty string, false or 0; every other value (any     *)
(* non-empty string, such as "0", "false" or a blank, and any other truthy *)
(* value) is answered with a 200 appraisal.                                *)
C4_OnlyFalsyRejected ==
    (Answered /\ Exch.invoked) =>
        /\ Len(Exch.sent) = 1
        /\ (Exch.sent[1].status = 400) <=>
               (Content(Exch.raw) \in {Undefined, Null, Str(""), Bool(FALSE), Num(0)})
        /\ (Exch.sent[1].status = 200) <=>
               (Content(Exch.raw) \notin {Undefined, Null, Str(""), Bool(FALSE), Num(0)})
        /\ NonEmptyString(Content(Exch.raw)) => Exch.sent[1].status = 200

\* false or 0 was delivered by the body parser and rejected by the handler
C4_Witness ==
    /\ Answered
    /\ Exch.invoked
    /\ Content(Exch.raw) \in {Bool(FALSE), Num(0)}
    /\ Exch.sent = <<ResJson(400, ErrorBody)>>

(* C5: the overall score is drawn independently of the dimension scores:   *)
(* for a valid request in flight, every scores vector the turn can send    *)
(* can be sent with every overall value it can send, each position can     *)
(* hold each of 7, 8, 9, 10 whatever the overall value, and so the overall *)
(* value is not a function of the scores.                                  *)
C5_OverallIndependent ==
    \A raw \in BagToSet(inflight) :
        (raw.wellFormed /\ ToBoolean(Content(raw))) =>
            LET N == {out[1].body : out \in NextOutcomes(raw)}
                S == {b.scores : b \in N}
                O == {b.overall : b \in N}
            IN /\ \A out \in NextOutcomes(raw) : Len(out) = 1 /\ out[1].status = 200
               /\ Cardinality(N) = Cardinality(S) * Cardinality(O)
               /\ Cardinality(O) > 1
               /\ \A i \in 1..9 : \A v \in 7..10 : \A o \in O :
                       \E b \in N : b.scores[i] = v /\ b.overall = o

\* the lowest scores were sent with the highest overall score
C5_Witness ==
    /\ Appraised
    /\ \A i \in 1..9 : Exch.sent[1].body.scores[i] = 7
    /\ Exch.sent[1].body.overall = <<"1", "0", ".", "0">>

\* two appraisals differ in `scores` and in `overall`
Differ(a, b) ==
    /\ a[1].body.scores # b[1].body.scores
    /\ a[1].body.overall # b[1].body.overall

(* C6: no caching.  When a turn has appraised a request and a request with *)
(* the identical body is still in flight, the responses possible for the   *)
(* second are those that were possible for the first, the one just sent    *)
(* among them, and some of them differ from it in `scores` and `overall`.  *)
C6_NotCached ==
    [][(/\ received' = received       \* the step is a turn
        /\ last'[1].invoked
        /\ last'[1].sent[1].status = 200
        /\ BagIn(last'[1].raw, inflight'))
       => \A raw \in {last'[1].raw} :
              /\ NextOutcomes(raw)' = NextOutcomes(raw)
              /\ last'[1].sent \in NextOutcomes(raw)'
              /\ \E out \in NextOutcomes(raw)' : Differ(out, last'[1].sent)]_vars

\* two successive identical requests were answered differently
C6_Witness ==
    /\ Appraised
    /\ repeat = "differ"

C8_AnsweredExactlyOnce ==
    /\ answers = received - BagCardinality(inflight)
    /\ Answered => /\ Len(Exch.sent) = 1
                   /\ Exch.sent[1].status \in {200, 400}

\* a turn completed while another request was in flight
C8_Witness ==
    /\ Answered
    /\ Exch.invoked
    /\ BagCardinality(inflight) = 1
    /\ answers = 1

\* what a request with this body is answered, as a function of the body alone
OutcomesOf(raw) ==
    IF ~raw.wellFormed THEN {<<ParseErrorResponse>>}
    ELSE IF Content(raw) \in {Undefined, Null, Str(""), Bool(FALSE), Num(0)}
         THEN {<<ResJson(400, ErrorBody)>>}
         ELSE {Appraise(tape).sent : tape \in Tapes}

(* C9: requests are independent: whatever was received and handled before, *)
(* in whatever order, the responses possible for a request in flight are   *)
(* those its own body determines, and the exchange just completed is one   *)
(* of those its body determines.                                           *)
C9_RequestsIndependent ==
    /\ \A raw \in BagToSet(inflight) : NextOutcomes(raw) = OutcomesOf(raw)
    /\ Answered => Exch.sent \in OutcomesOf(Exch.raw)

\* an appraisal was served while a request without content is in flight
C9_Witness ==
    /\ Answered
    /\ Exch.sent[1].status = 200
    /\ \E raw \in BagToSet(inflight) : ~ToBoolean(Content(raw))

(* C10: a rejected request draws nothing and an appraised request draws    *)
(* exactly 10 values, so the number of draws made is 10 times the number   *)
(* of 200 responses.                                                       *)
C10_DrawsPerOutcome ==
    /\ draws = 10 * ok200
    /\ Answered =>
           Len(Exch.rand) = IF Exch.sent[1].status = 200 THEN 10 ELSE 0

\* one request was rejected and one appraised
C10_Witness ==
    /\ received = 2
    /\ inflight = EmptyBag
    /\ answers = 2
    /\ ok200 = 1
    /\ draws = 10

====
